---- MODULE Spec2Model ----
(***************************************************************************)
(* shotwell-mover: main() of src/shotwell_mover/cli.py.  One run copies    *)
(* the database file (optional), opens a connection, checks VersionTable,  *)
(* checks that the media paths start with old_prefix (optional), rewrites  *)
(* the four media tables with SQL replace() and commits; any raised        *)
(* exception rolls the transaction back.                                   *)
(*                                                                         *)
(* A string is a sequence of one-character strings.                        *)
(***************************************************************************)
EXTENDS Integers, Sequences, FiniteSets, TLC

\* ------------------------------------------------------------------ bounds
MaxPrefixLen == 1
MaxPathLen == 2
MaxRuns == 2

\* Characters of the OLD_PREFIX argument: a letter in both cases, the LIKE
\* wildcard "_" and the SQL string delimiter.
PrefixAlphabet == {"a", "A", "_", "'"}
\* Characters of the stored paths.
PathAlphabet == {"a", "_"}

StrsUpTo(alphabet, n) == UNION {[1..k -> alphabet] : k \in 0..n}

OldPrefixes == StrsUpTo(PrefixAlphabet, MaxPrefixLen)
NewPrefixes == {<<>>, <<"b">>}
PathValues == StrsUpTo(PathAlphabet, MaxPathLen)

\* ------------------------------------------------------- program constants
\* _MEDIA_TABLES, in list order.
MEDIA_TABLES == <<"PhotoTable", "VideoTable", "BackingPhotoTable", "TombstoneTable">>
NumTables == Len(MEDIA_TABLES)
SUPPORTED_SCHEMA_VERSIONS == {22}
trim_length == 50

\* ------------------------------------------------------------ SQL helpers
\* ASCII case folding, as LIKE applies it.
Fold(c) == IF c = "A" THEN "a" ELSE c

\* The text old_prefix is pasted between the quotes of '{old_prefix}%': inside
\* an SQL string literal '' stands for one quote and a single quote ends the
\* literal.  A literal that ends before the closing quote leaves text behind
\* it that no statement over these characters parses, so the statement is in
\* error.  The result is <<TRUE, pattern>> or <<FALSE, <<>>>>.
RECURSIVE SqlLiteral(_)
SqlLiteral(s) ==
    IF s = <<>> THEN <<TRUE, <<>>>>
    ELSE IF Head(s) = "'"
         THEN IF Len(s) >= 2 /\ s[2] = "'"
              THEN LET r == SqlLiteral(SubSeq(s, 3, Len(s)))
                   IN  <<r[1], <<"'">> \o r[2]>>
              ELSE <<FALSE, <<>>>>
         ELSE LET r == SqlLiteral(Tail(s))
              IN  <<r[1], <<Head(s)>> \o r[2]>>

\* SQLite's LIKE (no ESCAPE, case_sensitive_like off): "%" matches any run of
\* characters, "_" any one character, a letter matches in either case.
RECURSIVE Like(_, _)
Like(str, pat) ==
    IF pat = <<>> THEN str = <<>>
    ELSE IF Head(pat) = "%"
         THEN \E k \in 0..Len(str) : Like(SubSeq(str, k + 1, Len(str)), Tail(pat))
         ELSE /\ str # <<>>
              /\ (Head(pat) = "_" \/ Fold(Head(pat)) = Fold(Head(str)))
              /\ Like(Tail(str), Tail(pat))

IsPrefixAt(y, x) ==
    /\ Len(y) <= Len(x)
    /\ SubSeq(x, 1, Len(y)) = y

\* SQLite's replace(X, Y, Z): X itself when Y is empty; otherwise a scan from
\* the left that copies Z for each match of Y and resumes behind the match.
RECURSIVE SqlReplaceScan(_, _, _)
SqlReplaceScan(x, y, z) ==
    IF Len(x) < Len(y) THEN x
    ELSE IF IsPrefixAt(y, x)
         THEN z \o SqlReplaceScan(SubSeq(x, Len(y) + 1, Len(x)), y, z)
         ELSE <<Head(x)>> \o SqlReplaceScan(Tail(x), y, z)

\* A replace() that stops after the first match.
SqlReplaceFirstOnly(x, y, z) ==
    IF y = <<>> THEN x
    ELSE IF \E k \in 1..Len(x) : IsPrefixAt(y, SubSeq(x, k, Len(x)))
         THEN LET k == CHOOSE j \in 1..Len(x) :
                          /\ IsPrefixAt(y, SubSeq(x, j, Len(x)))
                          /\ \A i \in 1..(j - 1) : ~IsPrefixAt(y, SubSeq(x, i, Len(x)))
              IN  SubSeq(x, 1, k - 1) \o z \o SubSeq(x, k + Len(y), Len(x))
         ELSE x

SqlReplace(x, y, z) == IF y = <<>> THEN x ELSE SqlReplaceScan(x, y, z)

\* ------------------------------------------------------------------ state
VARIABLES
    args,      \* main's parameters: old_prefix, new_prefix and the three flags
    disk,      \* the database file: VersionTable, the media tables, the rest
    txn,       \* the media tables as the open connection sees and writes them
    conn,      \* "none", "open" or "closed"
    pc,        \* main's position
    table,     \* index into _MEDIA_TABLES of the running for loop
    rows,      \* what the last cur.fetchall() returned
    error,     \* the exception that ended the run, NoError if none
    status,    \* "running", "success" (the echo, exit code 0) or "failed"
    backups,   \* the backup files on disk, oldest first
    pre,       \* the database file as it was when the run started
    log,       \* the statements and connection calls of the run, in order
    hist       \* the finished runs

vars == <<args, disk, txn, conn, pc, table, rows, error, status, backups, pre, log, hist>>

Table(r) == [exists |-> TRUE, rows |-> r]
NoTable == [exists |-> FALSE, rows |-> <<>>]
Rows(v, n) == [k \in 1..n |-> v]

Err(kind, t, count, samples, trimmed, version) ==
    [kind |-> kind, table |-> t, count |-> count, samples |-> samples,
     trimmed |-> trimmed, version |-> version]
NoError == Err("none", 0, 0, <<>>, FALSE, 0)

Event(op, t) == <<op, t>>

\* raise click.ClickException(...) inside "with con:".
Raise(e) ==
    /\ error' = e
    /\ pc' = "rollback"

\* ------------------------------------------------------------------ inputs
Flags == [schema_check : BOOLEAN, ignore_different_prefix : BOOLEAN, backup : BOOLEAN]

Args(old, new, f) ==
    [old_prefix |-> old, new_prefix |-> new, schema_check |-> f.schema_check,
     ignore_different_prefix |-> f.ignore_different_prefix, backup |-> f.backup]

\* VersionTable with one row, of a supported version or not; and VersionTable
\* missing, empty or with two rows.
VersionRows == {Table(<<22>>), Table(<<23>>)}
BrokenVersions == {NoTable, Table(<<>>), Table(<<22, 22>>)}
VersionChoices == VersionRows \cup BrokenVersions

Database(ver, tables) == [version |-> ver, tables |-> tables, other |-> "other"]

\* One media table holds any of FocusContents (it is missing, or holds one
\* path, or many copies of a one-character path), the other three all hold
\* the same one of RestContents.
BulkCounts == {trim_length, trim_length + 1}
FocusContents ==
    {NoTable}
    \cup {Table(<<v>>) : v \in PathValues}
    \cup {Table(Rows(v, n)) : v \in {w \in PathValues : Len(w) = 1}, n \in BulkCounts}
RestContents == {Table(<<>>), Table(<<<<"a", "a">>, <<"_", "a">>>>)}

Catalogs ==
    {Database(ver, [i \in 1..NumTables |-> IF i = f THEN c ELSE r]) :
        ver \in VersionRows, f \in 1..NumTables, c \in FocusContents, r \in RestContents}
BrokenCatalogs ==
    {Database(ver, [i \in 1..NumTables |-> r]) : ver \in BrokenVersions, r \in RestContents}
Databases == Catalogs \cup BrokenCatalogs

StartRun(a, d) ==
    /\ args = a
    /\ disk = d
    /\ pre = d
    /\ txn = d.tables
    /\ conn = "none"
    /\ pc = "backup"
    /\ table = 1
    /\ rows = <<>>
    /\ error = NoError
    /\ status = "running"
    /\ log = <<>>

Init ==
    /\ \E old \in OldPrefixes, new \in NewPrefixes, f \in Flags, d \in Databases :
          StartRun(Args(old, new, f), d)
    /\ backups = <<>>
    /\ hist = <<>>

\* ----------------------------------------------------------------- actions
\* A backup step that swallows the copy's exception and goes on.
BackupSwallowsFailure ==
    /\ pc = "backup"
    /\ IF args.backup
       THEN \/ /\ backups' = Append(backups, disk)
               /\ log' = Append(log, Event("copy", 0))
            \/ UNCHANGED <<backups, log>>
       ELSE UNCHANGED <<backups, log>>
    /\ pc' = "connect"
    /\ UNCHANGED <<args, disk, txn, conn, table, rows, error, status, pre, hist>>

\* Lines 61-62: shutil.copy2 of the database file, before sqlite3.connect.
\* The copy either is made or raises (OSError), which ends main.
Backup ==
    /\ pc = "backup"
    /\ IF args.backup
       THEN \/ /\ backups' = Append(backups, disk)
               /\ log' = Append(log, Event("copy", 0))
               /\ pc' = "connect"
               /\ UNCHANGED error
            \/ /\ error' = Err("BackupFailed", 0, 0, <<>>, FALSE, 0)
               /\ pc' = "exit"
               /\ UNCHANGED <<backups, log>>
       ELSE /\ pc' = "connect"
            /\ UNCHANGED <<backups, log, error>>
    /\ UNCHANGED <<args, disk, txn, conn, table, rows, status, pre, hist>>

\* Line 63, 66-67: sqlite3.connect, "with con:", con.cursor().
Connect ==
    /\ pc = "connect"
    /\ conn' = "open"
    /\ txn' = disk.tables
    /\ log' = Append(log, Event("connect", 0))
    /\ pc' = "version"
    /\ UNCHANGED <<args, disk, table, rows, error, status, backups, pre, hist>>

\* Lines 69-74: SELECT schema_version from VersionTable.
SelectVersion ==
    /\ pc = "version"
    /\ log' = Append(log, Event("select_version", 0))
    /\ IF disk.version.exists
       THEN /\ rows' = disk.version.rows
            /\ pc' = "shape"
            /\ UNCHANGED error
       ELSE /\ Raise(Err("NotACatalog", 0, 0, <<>>, FALSE, 0))
            /\ UNCHANGED rows
    /\ UNCHANGED <<args, disk, txn, conn, table, status, backups, pre, hist>>

\* A result-shape check that only refuses an empty result.
CheckShapeAtLeastOne ==
    /\ pc = "shape"
    /\ IF Len(rows) < 1
       THEN Raise(Err("Corrupted", 0, 0, <<>>, FALSE, 0))
       ELSE /\ pc' = "schema"
            /\ UNCHANGED error
    /\ UNCHANGED <<args, disk, txn, conn, table, rows, status, backups, pre, log, hist>>

\* Lines 76-81: one row of one column, or the file "might be corrupted".
\* The query selects one column, so every row has one.
CheckShape ==
    /\ pc = "shape"
    /\ IF Len(rows) # 1
       THEN Raise(Err("Corrupted", 0, 0, <<>>, FALSE, 0))
       ELSE /\ pc' = "schema"
            /\ UNCHANGED error
    /\ UNCHANGED <<args, disk, txn, conn, table, rows, status, backups, pre, log, hist>>

\* A schema version check that does not look at schema_check.
CheckSchemaIgnoringFlag ==
    /\ pc = "schema"
    /\ LET schema_version == rows[1]
       IN  IF schema_version \notin SUPPORTED_SCHEMA_VERSIONS
           THEN Raise(Err("UnsupportedSchemaVersion", 0, 0, <<>>, FALSE, schema_version))
           ELSE /\ pc' = IF args.ignore_different_prefix THEN "update" ELSE "check"
                /\ UNCHANGED error
    /\ table' = 1
    /\ UNCHANGED <<args, disk, txn, conn, rows, status, backups, pre, log, hist>>

\* Lines 81-92: the schema version check, then the choice of the next loop.
CheckSchema ==
    /\ pc = "schema"
    /\ LET schema_version == rows[1]
       IN  IF args.schema_check /\ schema_version \notin SUPPORTED_SCHEMA_VERSIONS
           THEN Raise(Err("UnsupportedSchemaVersion", 0, 0, <<>>, FALSE, schema_version))
           ELSE /\ pc' = IF args.ignore_different_prefix THEN "update" ELSE "check"
                /\ UNCHANGED error
    /\ table' = 1
    /\ UNCHANGED <<args, disk, txn, conn, rows, status, backups, pre, log, hist>>

\* Line 97's WHERE clause on one value, given the parsed pattern.
NotLike(value, pattern) == ~Like(value, pattern)

\* Lines 105-109.
TrimLength(num) == IF num < trim_length THEN num ELSE trim_length
Trimmed(num) == ~(num < trim_length)

\* Lines 93-115, one iteration: SELECT ... WHERE col NOT LIKE '{old_prefix}%'.
CheckTable ==
    /\ pc = "check"
    /\ log' = Append(log, Event("select", table))
    /\ LET lit == SqlLiteral(args.old_prefix \o <<"%">>)
           files_with_different_prefix ==
               SelectSeq(txn[table].rows, LAMBDA v : NotLike(v, lit[2]))
           num == Len(files_with_different_prefix)
       IN  IF ~txn[table].exists \/ ~lit[1]
           THEN /\ Raise(Err("QueryFailed", table, 0, <<>>, FALSE, 0))
                /\ UNCHANGED <<rows, table>>
           ELSE /\ rows' = files_with_different_prefix
                /\ IF num > 0
                   THEN /\ Raise(Err("PrefixMismatch", table, num,
                                     SubSeq(files_with_different_prefix, 1, TrimLength(num)),
                                     Trimmed(num), 0))
                        /\ UNCHANGED table
                   ELSE /\ error' = error
                        /\ IF table < NumTables
                           THEN /\ table' = table + 1
                                /\ pc' = "check"
                           ELSE /\ table' = 1
                                /\ pc' = "update"
    /\ UNCHANGED <<args, disk, txn, conn, status, backups, pre, hist>>

\* Line 121 on one table: SET col = replace(col, old_prefix, new_prefix).
UpdatedRows(r, old, new) == [k \in 1..Len(r) |-> SqlReplace(r[k], old, new)]

\* Lines 118-125, one iteration.
UpdateTable ==
    /\ pc = "update"
    /\ log' = Append(log, Event("update", table))
    /\ IF ~txn[table].exists
       THEN /\ Raise(Err("UpdateFailed", table, 0, <<>>, FALSE, 0))
            /\ UNCHANGED <<txn, table>>
       ELSE /\ txn' = [txn EXCEPT ![table] =
                          Table(UpdatedRows(txn[table].rows, args.old_prefix, args.new_prefix))]
            /\ error' = error
            /\ IF table < NumTables
               THEN /\ table' = table + 1
                    /\ pc' = "update"
               ELSE /\ table' = 1
                    /\ pc' = "commit"
    /\ UNCHANGED <<args, disk, conn, rows, status, backups, pre, hist>>

\* Line 66, leaving "with con:" without an exception: con.commit().
Commit ==
    /\ pc = "commit"
    /\ disk' = [disk EXCEPT !.tables = txn]
    /\ log' = Append(log, Event("commit", 0))
    /\ pc' = "close"
    /\ UNCHANGED <<args, txn, conn, table, rows, error, status, backups, pre, hist>>

\* An exit from "with con:" that commits although an exception is in flight.
RollbackKeepsWrites ==
    /\ pc = "rollback"
    /\ disk' = [disk EXCEPT !.tables = txn]
    /\ log' = Append(log, Event("rollback", 0))
    /\ pc' = "close"
    /\ UNCHANGED <<args, txn, conn, table, rows, error, status, backups, pre, hist>>

\* Line 66, leaving "with con:" with an exception: con.rollback().
Rollback ==
    /\ pc = "rollback"
    /\ txn' = disk.tables
    /\ log' = Append(log, Event("rollback", 0))
    /\ pc' = "close"
    /\ UNCHANGED <<args, disk, conn, table, rows, error, status, backups, pre, hist>>

\* A close after which the success message is shown whatever happened.
CloseThenEcho ==
    /\ pc = "close"
    /\ conn' = "closed"
    /\ log' = Append(log, Event("close", 0))
    /\ pc' = "echo"
    /\ UNCHANGED <<args, disk, txn, table, rows, error, status, backups, pre, hist>>

\* Line 63, leaving contextlib.closing: con.close().
Close ==
    /\ pc = "close"
    /\ conn' = "closed"
    /\ log' = Append(log, Event("close", 0))
    /\ pc' = IF error = NoError THEN "echo" ELSE "exit"
    /\ UNCHANGED <<args, disk, txn, table, rows, error, status, backups, pre, hist>>

Finished(s) ==
    [args |-> args, pre |-> pre, post |-> disk, status |-> s, error |-> error]

\* Lines 127-130: the success message; main returns, exit code 0.
Echo ==
    /\ pc = "echo"
    /\ status' = "success"
    /\ log' = Append(log, Event("echo", 0))
    /\ hist' = Append(hist, Finished("success"))
    /\ pc' = "done"
    /\ UNCHANGED <<args, disk, txn, conn, table, rows, error, backups, pre>>

\* The exception leaves main: the message is shown, the exit code is not 0.
Exit ==
    /\ pc = "exit"
    /\ status' = "failed"
    /\ hist' = Append(hist, Finished("failed"))
    /\ pc' = "done"
    /\ UNCHANGED <<args, disk, txn, conn, table, rows, error, backups, pre, log>>

Next ==
    \/ Backup
    \/ Connect
    \/ SelectVersion
    \/ CheckShape
    \/ CheckSchema
    \/ CheckTable
    \/ UpdateTable
    \/ Commit
    \/ Rollback
    \/ Close
    \/ Echo
    \/ Exit

Spec == Init /\ [][Next]_vars


\* ------------------------------------------------- a second run, reversed
\* The tool is run again on the same file with OLD_PREFIX and NEW_PREFIX
\* exchanged and the same options.
RunReverse ==
    /\ pc = "done"
    /\ Len(hist) < MaxRuns
    /\ args' = [args EXCEPT !.old_prefix = args.new_prefix, !.new_prefix = args.old_prefix]
    /\ pre' = disk
    /\ txn' = disk.tables
    /\ conn' = "none"
    /\ pc' = "backup"
    /\ table' = 1
    /\ rows' = <<>>
    /\ error' = NoError
    /\ status' = "running"
    /\ log' = <<>>
    /\ UNCHANGED <<disk, backups, hist>>

\* Both prefixes and the paths range over the same characters; every media
\* table holds the same single path.
RoundTripPaths == StrsUpTo(PrefixAlphabet, MaxPathLen)

InitRoundTrip ==
    /\ \E A \in OldPrefixes, B \in OldPrefixes, f \in Flags,
          ver \in VersionChoices, v \in RoundTripPaths :
          StartRun(Args(A, B, f), Database(ver, [i \in 1..NumTables |-> Table(<<v>>)]))
    /\ backups = <<>>
    /\ hist = <<>>

NextRoundTrip ==
    \/ Next
    \/ RunReverse

SpecRoundTrip == InitRoundTrip /\ [][NextRoundTrip]_vars

\* ===================================================================
\* Properties of a run, stated without the operators the run is built of.
\* ===================================================================
Done == pc = "done"
Min(a, b) == IF a < b THEN a ELSE b

\* v begins with p, character for character.
StartsWith(v, p) ==
    /\ Len(p) <= Len(v)
    /\ \A k \in 1..Len(p) : v[k] = p[k]

\* p, not empty, stands in v at position k.
OccursAt(p, v, k) ==
    /\ p # <<>>
    /\ k + Len(p) - 1 <= Len(v)
    /\ \A j \in 1..Len(p) : v[k + j - 1] = p[j]

Contains(v, p) == \E k \in 1..Len(v) : OccursAt(p, v, k)

\* v with its leading old replaced by new, and nothing else touched.
ReplacePrefix(v, old, new) ==
    IF StartsWith(v, old) THEN new \o SubSeq(v, Len(old) + 1, Len(v)) ELSE v

\* v with every occurrence of old replaced by new: the leftmost occurrence,
\* then every occurrence in what follows it.
RECURSIVE ReplaceAll(_, _, _)
ReplaceAll(v, old, new) ==
    IF ~Contains(v, old) THEN v
    ELSE LET k == CHOOSE j \in 1..Len(v) :
                     /\ OccursAt(old, v, j)
                     /\ \A i \in 1..(j - 1) : ~OccursAt(old, v, i)
         IN  SubSeq(v, 1, k - 1) \o new
                \o ReplaceAll(SubSeq(v, k + Len(old), Len(v)), old, new)

ShapeOk(d) == d.version.exists /\ Len(d.version.rows) = 1
Supported(d) == d.version.rows[1] \in SUPPORTED_SCHEMA_VERSIONS
\* The catalog-type, result-shape and schema-version checks pass.
VersionOk(d, a) == ShapeOk(d) /\ (a.schema_check => Supported(d))
AllTablesExist(d) == \A t \in 1..NumTables : d.tables[t].exists
BackupFailed == error.kind = "BackupFailed"

InLog(e) == \E k \in 1..Len(log) : log[k] = e
IndexOf(e) == CHOOSE k \in 1..Len(log) : log[k] = e
Before(e1, e2) == InLog(e1) /\ InLog(e2) /\ IndexOf(e1) < IndexOf(e2)
MediaStatements == {e \in {log[k] : k \in 1..Len(log)} : e[1] \in {"select", "update"}}

\* The rows of table t, before the run, that line 97's query returns.
Flagged(t) ==
    {k \in 1..Len(pre.tables[t].rows) :
        NotLike(pre.tables[t].rows[k], SqlLiteral(args.old_prefix \o <<"%">>)[2])}
\* The rows of table t, before the run, that do not begin with old_prefix.
NotPrefixed(t) ==
    {k \in 1..Len(pre.tables[t].rows) : ~StartsWith(pre.tables[t].rows[k], args.old_prefix)}

\* C1: a run that fails leaves the database file as it was before the run,
\* also when earlier tables were already updated; a finished run has either
\* changed nothing or has updated and committed all four tables.
C1_Atomicity ==
    /\ (error # NoError \/ status = "failed") => disk = pre
    /\ Done => \/ disk = pre
               \/ /\ status = "success"
                  /\ \A t \in 1..NumTables : InLog(Event("update", t))

\* C1's case: the UPDATE of a later table failed after the first table had
\* been rewritten inside the transaction.
C1_Witness ==
    /\ Done
    /\ error.kind = "UpdateFailed"
    /\ error.table > 1
    /\ InLog(Event("update", 1))
    /\ \E k \in 1..Len(pre.tables[1].rows) :
          ReplaceAll(pre.tables[1].rows[k], args.old_prefix, args.new_prefix)
              # pre.tables[1].rows[k]
    /\ disk = pre

\* C2: after a successful run every path is its old value with old_prefix at
\* its start replaced by new_prefix, the rest of the value, VersionTable and
\* the rest of the database being as before.
C2_PrefixOnlyRewrite ==
    status = "success" =>
        /\ disk.version = pre.version
        /\ disk.other = pre.other
        /\ \A t \in 1..NumTables :
              /\ disk.tables[t].exists = pre.tables[t].exists
              /\ Len(disk.tables[t].rows) = Len(pre.tables[t].rows)
              /\ \A k \in 1..Len(pre.tables[t].rows) :
                    disk.tables[t].rows[k]
                        = ReplacePrefix(pre.tables[t].rows[k], args.old_prefix, args.new_prefix)

\* C3: the prefix-mismatch error of a table with N offending values reports
\* N, lists min(N, 50) of them, and carries the trimmed notice iff N > 50.
C3_TrimBoundary ==
    error.kind = "PrefixMismatch" =>
        /\ error.count = Cardinality(Flagged(error.table))
        /\ error.count > 0
        /\ Len(error.samples) = Min(error.count, trim_length)
        /\ error.trimmed <=> error.count > trim_length

\* C4: with the prefix check on and the version checks passed, the run ends
\* in the prefix-mismatch error, the database unchanged, iff some path of a
\* media table does not begin with old_prefix character for character; the
\* values reported are those of the first such table.
C4_ExactPrefixValidation ==
    (/\ Done
     /\ ~BackupFailed
     /\ ~args.ignore_different_prefix
     /\ VersionOk(pre, args)
     /\ AllTablesExist(pre)) =>
        /\ error.kind = "PrefixMismatch" <=> \E t \in 1..NumTables : NotPrefixed(t) # {}
        /\ error.kind = "PrefixMismatch" =>
              /\ disk = pre
              /\ {error.samples[k] : k \in 1..Len(error.samples)}
                    = {pre.tables[error.table].rows[k] : k \in NotPrefixed(error.table)}

\* C5: with schema_check on, a single version value outside the supported
\* set ends the run in the unsupported-schema-version error, which carries the
\* version found, before any statement on a media table and with the database
\* unchanged; with schema_check off the version value plays no part: the run
\* goes on to the first media-table statement and its outcome is decided by
\* the media tables and the prefixes alone.
C5_SchemaGate ==
    /\ error.kind = "UnsupportedSchemaVersion" =>
          /\ args.schema_check
          /\ ShapeOk(pre)
          /\ ~Supported(pre)
          /\ error.version = pre.version.rows[1]
          /\ MediaStatements = {}
          /\ disk = pre
    /\ (Done /\ ~BackupFailed /\ ShapeOk(pre) /\ args.schema_check /\ ~Supported(pre)) =>
          error.kind = "UnsupportedSchemaVersion"
    /\ (Done /\ ~BackupFailed /\ ShapeOk(pre) /\ ~args.schema_check) =>
          /\ error.kind \in {"none", "QueryFailed", "PrefixMismatch", "UpdateFailed"}
          /\ InLog(Event(IF args.ignore_different_prefix THEN "update" ELSE "select", 1))
          /\ status = "success" <=>
                /\ AllTablesExist(pre)
                /\ \/ args.ignore_different_prefix
                   \/ /\ SqlLiteral(args.old_prefix \o <<"%">>)[1]
                      /\ \A t \in 1..NumTables : Flagged(t) = {}

\* C5's case: version 23 refused with schema_check on.
C5_Witness ==
    /\ Done
    /\ args.schema_check
    /\ error.kind = "UnsupportedSchemaVersion"
    /\ error.version = 23
    /\ \E t \in 1..NumTables : pre.tables[t].rows # <<>>

\* C5's other case: version 23 with schema_check off, rewritten and committed.
C5_WitnessUnchecked ==
    /\ Done
    /\ ~args.schema_check
    /\ pre.version.rows = <<23>>
    /\ status = "success"
    /\ disk # pre

\* C7: with backup on, the copy is the first thing the run does and holds the
\* database as it was before the run, from then on and whatever happens
\* later; a copy that fails ends the run with no connection opened and no
\* statement executed; with backup off no backup file is made.
C7_BackupOrdering ==
    /\ (args.backup /\ pc # "backup" /\ ~BackupFailed) =>
          /\ backups = <<pre>>
          /\ log # <<>>
          /\ log[1] = Event("copy", 0)
    /\ BackupFailed =>
          /\ args.backup
          /\ log = <<>>
          /\ conn = "none"
          /\ backups = <<>>
          /\ disk = pre
    /\ conn # "none" => (args.backup <=> InLog(Event("copy", 0)))
    /\ ~args.backup => backups = <<>>

\* C7's case: the backup is still there, unchanged, after an UPDATE failed
\* and the transaction was rolled back.
C7_Witness ==
    /\ Done
    /\ args.backup
    /\ error.kind = "UpdateFailed"
    /\ InLog(Event("rollback", 0))
    /\ backups = <<pre>>

C9_WitnessFirstTable ==
    /\ Done
    /\ error.kind = "PrefixMismatch"
    /\ error.table > 1
    /\ \E u \in (error.table + 1)..NumTables : Flagged(u) # {}

\* C10: an UPDATE is executed only after the version checks and, unless
\* skipped, the prefix check of all four tables have passed; the commit comes
\* only after the UPDATE of all four tables, with no error; and a finished run
\* has reported success iff it committed, so it never both fails and commits.
C10_Ordering ==
    /\ \A t \in 1..NumTables : InLog(Event("update", t)) =>
          /\ VersionOk(pre, args)
          /\ Before(Event("select_version", 0), Event("update", t))
          /\ \A u \in 1..(t - 1) : Before(Event("update", u), Event("update", t))
    /\ (InLog(Event("update", 1)) /\ ~args.ignore_different_prefix) =>
          \A u \in 1..NumTables :
             /\ Before(Event("select", u), Event("update", 1))
             /\ pre.tables[u].exists
             /\ Flagged(u) = {}
    /\ InLog(Event("commit", 0)) =>
          /\ error = NoError
          /\ \A t \in 1..NumTables : Before(Event("update", t), Event("commit", 0))
          /\ disk.tables = txn
    /\ status = "success" => InLog(Event("commit", 0))
    /\ status = "failed" => ~InLog(Event("commit", 0))
    /\ Done => (status = "success" <=> InLog(Event("commit", 0)))
    /\ disk # pre => InLog(Event("commit", 0))

\* C10's case: a run that rewrote the paths, committed and reported success.
C10_Witness ==
    /\ Done
    /\ status = "success"
    /\ ~args.ignore_different_prefix
    /\ disk # pre

\* p, empty or not, stands in v at position k.
StandsAt(p, v, k) ==
    /\ k + Len(p) - 1 <= Len(v)
    /\ \A j \in 1..Len(p) : v[k + j - 1] = p[j]

\* Every path of d starts with A, and neither A nor B stands anywhere else
\* in it.
RoundTripPaths_Ok(d, A, B) ==
    \A t \in 1..NumTables : \A k \in 1..Len(d.tables[t].rows) :
        LET v == d.tables[t].rows[k]
        IN  /\ StartsWith(v, A)
            /\ \A j \in 2..(Len(v) + 1) : ~StandsAt(A, v, j) /\ ~StandsAt(B, v, j)

\* C6: on a supported catalog whose paths all start with A, with A and B
\* nowhere else in them, the run A -> B followed by the run B -> A, both with
\* the prefix check on, both succeed and the paths are as they were.
C6_RoundTrip ==
    (/\ Len(hist) = 2
     /\ hist[2].args.old_prefix = hist[1].args.new_prefix
     /\ hist[2].args.new_prefix = hist[1].args.old_prefix
     /\ ~hist[1].args.ignore_different_prefix
     /\ ~hist[2].args.ignore_different_prefix
     /\ VersionOk(hist[1].pre, hist[1].args)
     /\ AllTablesExist(hist[1].pre)
     /\ hist[1].error.kind # "BackupFailed"
     /\ hist[2].error.kind # "BackupFailed"
     /\ RoundTripPaths_Ok(hist[1].pre, hist[1].args.old_prefix, hist[1].args.new_prefix)) =>
        /\ hist[1].status = "success"
        /\ hist[2].status = "success"
        /\ hist[2].post.tables = hist[1].pre.tables

\* C6 where no string is empty.
C6_RoundTripNonEmpty ==
    (/\ hist # <<>>
     /\ hist[1].args.old_prefix # <<>>
     /\ hist[1].args.new_prefix # <<>>
     /\ \A t \in 1..NumTables : \A k \in 1..Len(hist[1].pre.tables[t].rows) :
           Len(hist[1].pre.tables[t].rows[k]) > Len(hist[1].args.old_prefix)) =>
        C6_RoundTrip

\* C6 where, moreover, neither prefix holds a quote.
C6_RoundTripNoQuote ==
    (/\ hist # <<>>
     /\ \A j \in 1..Len(hist[1].args.old_prefix) : hist[1].args.old_prefix[j] # "'"
     /\ \A j \in 1..Len(hist[1].args.new_prefix) : hist[1].args.new_prefix[j] # "'") =>
        C6_RoundTripNonEmpty

====
